---- MODULE Spec2Model ----
(***************************************************************************)
(* Lazy Labor (plugins/lazylabor.cpp): a periodic pass that keeps every    *)
(* labor between its minimum and maximum head count and tries to leave no  *)
(* dwarf without a labor.                                                  *)
(*                                                                         *)
(* One pass (check_dwarves) is modelled as the sequence of its loops:      *)
(* the recount, one step per labor of the per-labor loop, one step per     *)
(* worker of the safety-net loop.  While a pass runs nothing else is       *)
(* enabled (the host calls the plugin synchronously).                      *)
(***************************************************************************)
EXTENDS Integers, Sequences, FiniteSets, TLC

VARIABLES
    enabled,            \* DFHACK_PLUGIN_IS_ENABLED(enabled)
    fortress,           \* World::isFortressMode()
    frame_counter,      \* world->frame_counter
    last_frame_count,   \* last_frame_count
    lazy_labors,        \* lazy_labors[]: skill, uniformed, minimum, maximum, active
    units,              \* world->units.active: eligibility data, labors[], skills
    workers,            \* check_dwarves: std::vector<struct worker> workers
    pc,                 \* position of the running pass: "idle", "labors", "net"
    labor,              \* loop index of the per-labor loop
    widx,               \* loop index of the safety-net loop
    passes,             \* number of passes completed so far
    before,             \* status.labors of every unit when the running pass began
    counted,            \* lazy_labors[].active as left by the recount of the pass
    walk,               \* what the last per-labor step did (order used, kind)
    cmp                 \* inputs and results of the comparators under test

vars == <<enabled, fortress, frame_counter, last_frame_count, lazy_labors, units,
          workers, pc, labor, widx, passes, before, counted, walk, cmp>>

sched == <<enabled, fortress, frame_counter, last_frame_count>>

(***************************************************************************)
(* Bounds of the model.                                                    *)
(***************************************************************************)
MaxBound == 1       \* largest minimum / maximum a labor class is configured with
MaxPasses == 5      \* passes run back to back in the pass specifications
MaxFrame == 4800    \* the host's frame counter stops here

\* Run about once a day.
DELTA_TICKS == 1200

\* The host advances the frame counter between two update callbacks.
TickSteps == {DELTA_TICKS - 1, DELTA_TICKS}

RandTop == 1        \* rand() is drawn from 0 .. RandTop

(***************************************************************************)
(* Skill records (df::unit_skill) and the NULL pointer.                    *)
(***************************************************************************)
NoSkill == [id |-> "NONE", present |-> FALSE, rating |-> 0, experience |-> 0,
            rusty |-> 0, rust_counter |-> 0]

Skill(id, rating, experience, rusty, rust_counter) ==
    [id |-> id, present |-> TRUE, rating |-> rating, experience |-> experience,
     rusty |-> rusty, rust_counter |-> rust_counter]

\* #define Compare(a, b)  if ((a) != (b)) return ((a) > (b))
\* A chain of Compare lines ending in "return false" decides on the first pair
\* that differs.
RECURSIVE Compare(_)
Compare(pairs) ==
    IF pairs = <<>> THEN FALSE
    ELSE IF pairs[1][1] # pairs[1][2] THEN pairs[1][1] > pairs[1][2]
    ELSE Compare(Tail(pairs))

\* moreSkilled with the last comparison made with >= instead of >.
moreSkilledOrEqual(s1, s2) ==
    IF ~s1.present THEN FALSE
    ELSE IF ~s2.present THEN TRUE
    ELSE ~Compare(<< <<s2.rating, s1.rating>>,
                     <<s2.experience, s1.experience>>,
                     <<s2.rusty, s1.rusty>>,
                     <<s2.rust_counter, s1.rust_counter>> >>)


\* Return whether s1 should replace s2 as the highest skill.
moreSkilled(s1, s2) ==
    IF ~s1.present THEN FALSE
    ELSE IF ~s2.present THEN TRUE
    ELSE Compare(<< <<s1.rating, s2.rating>>,
                    <<s1.experience, s2.experience>>,
                    <<s1.rusty, s2.rusty>>,
                    <<s1.rust_counter, s2.rust_counter>> >>)

\* Compare the workers by suitability for this (skilled) labor.
sortBySkilledLabor(w1, w2) ==
    IF moreSkilled(w1.this_skill, w2.this_skill) THEN TRUE
    ELSE IF moreSkilled(w2.this_skill, w1.this_skill) THEN FALSE
    ELSE IF w2.skilled # w1.skilled THEN w2.skilled > w1.skilled
    ELSE IF moreSkilled(w1.other_skill, w2.other_skill) THEN TRUE
    ELSE IF moreSkilled(w2.other_skill, w1.other_skill) THEN FALSE
    ELSE IF w2.unskilled # w1.unskilled THEN w2.unskilled > w1.unskilled
    ELSE IF w2.total_skill # w1.total_skill THEN w2.total_skill > w1.total_skill
    ELSE FALSE

\* Compare the workers by suitability for this (unskilled) labor.
sortByUnskilledLabor(w1, w2) ==
    IF w2.unskilled # w1.unskilled THEN w2.unskilled > w1.unskilled
    ELSE IF moreSkilled(w1.other_skill, w2.other_skill) THEN TRUE
    ELSE IF moreSkilled(w2.other_skill, w1.other_skill) THEN FALSE
    ELSE IF w2.skilled # w1.skilled THEN w2.skilled > w1.skilled
    ELSE IF w2.total_skill # w1.total_skill THEN w2.total_skill > w1.total_skill
    ELSE FALSE

(***************************************************************************)
(* sortUnitsBySkill: find this skill and the best other skill of every     *)
(* worker, then std::sort the vector.  std::sort is not stable: any        *)
(* arrangement that the comparator accepts as sorted can come out.         *)
(* total_skill is not reset between two sorts of a pass: it accumulates.   *)
(* The function is declared bool and returns nothing; both callers discard *)
(* the value, so the operator yields the sorted vectors only.              *)
(***************************************************************************)
RECURSIVE ScanSkills(_, _, _, _)
ScanSkills(skills, i, w, sort_skill) ==
    IF i > Len(skills) THEN w
    ELSE LET skill == skills[i]
             w1 == [w EXCEPT !.total_skill = @ + skill.rating]
             w2 == IF sort_skill # "NONE" /\ skill.id = sort_skill
                   THEN [w1 EXCEPT !.this_skill = skill]
                   ELSE IF moreSkilled(skill, w1.other_skill)
                   THEN [w1 EXCEPT !.other_skill = skill]
                   ELSE w1
         IN ScanSkills(skills, i + 1, w2, sort_skill)

Precedes(w1, w2, sort_skill) ==
    IF sort_skill # "NONE" THEN sortBySkilledLabor(w1, w2)
    ELSE sortByUnskilledLabor(w1, w2)

IsSorted(ws, sort_skill) ==
    \A i, j \in DOMAIN ws : i < j => ~Precedes(ws[j], ws[i], sort_skill)

\* sortUnitsBySkill without the call of std::sort.
sortUnitsBySkillUnsorted(ws, us, sort_skill) ==
    {[i \in DOMAIN ws |->
         ScanSkills(us[ws[i].unit].skills, 1,
                    [ws[i] EXCEPT !.this_skill = NoSkill, !.other_skill = NoSkill],
                    sort_skill)]}

sortUnitsBySkill(ws, us, sort_skill) ==
    LET scanned == [i \in DOMAIN ws |->
                       ScanSkills(us[ws[i].unit].skills, 1,
                                  [ws[i] EXCEPT !.this_skill = NoSkill,
                                                !.other_skill = NoSkill],
                                  sort_skill)]
        arranged == {[i \in DOMAIN ws |-> scanned[p[i]]] :
                        p \in Permutations(DOMAIN ws)}
    IN {a \in arranged : IsSorted(a, sort_skill)}

(***************************************************************************)
(* can_work                                                                *)
(***************************************************************************)
\* ENUM_ATTR(profession, military, ...): the on-duty military professions.
MilitaryProfessions == {"RECRUIT"}

can_work(unit) ==
    /\ unit.soul
    /\ unit.citizen
    /\ unit.adult
    /\ unit.profession # "DRUNK"
    /\ unit.profession \notin MilitaryProfessions

(***************************************************************************)
(* check_dwarves, first loops: reset the counters, then recount the        *)
(* labors of the units that can work and build their worker records.       *)
(***************************************************************************)
NLabors == Len(lazy_labors)

Holds(us, u, l) == us[u].labors[l]

\* The worker record of one unit: the tallies of its enabled labors.
RECURSIVE TallyLabors(_, _, _, _)
TallyLabors(ll, flags, l, w) ==
    IF l > Len(ll) THEN w
    ELSE IF ~flags[l] THEN TallyLabors(ll, flags, l + 1, w)
    ELSE LET w1 == IF ll[l].skill = "NONE"
                   THEN [w EXCEPT !.unskilled = @ + 1]
                   ELSE [w EXCEPT !.skilled = @ + 1]
             w2 == IF ll[l].uniformed THEN [w1 EXCEPT !.uniform = l] ELSE w1
         IN TallyLabors(ll, flags, l + 1, w2)

NewWorker(u) ==
    [unit |-> u, skilled |-> 0, unskilled |-> 0, total_skill |-> 0, uniform |-> 0,
     this_skill |-> NoSkill, other_skill |-> NoSkill]

\* The recount with the eligibility test left out.
RECURSIVE RecountEveryone(_, _, _)
RecountEveryone(ll, us, u) ==
    IF u > Len(us) THEN <<>>
    ELSE <<TallyLabors(ll, us[u].labors, 1, NewWorker(u))>>
         \o RecountEveryone(ll, us, u + 1)

\* workers, in the order of world->units.active, from unit u on.
RECURSIVE RecountWorkers(_, _, _)
RecountWorkers(ll, us, u) ==
    IF u > Len(us) THEN <<>>
    ELSE IF ~can_work(us[u]) THEN RecountWorkers(ll, us, u + 1)
    ELSE <<TallyLabors(ll, us[u].labors, 1, NewWorker(u))>>
         \o RecountWorkers(ll, us, u + 1)

\* lazy_labors[].active after the reset and the recount.
RecountActive(ll, us, ws) ==
    [l \in DOMAIN ll |->
        [ll[l] EXCEPT !.active =
            Cardinality({i \in DOMAIN ws : Holds(us, ws[i].unit, l)})]]

(***************************************************************************)
(* check_dwarves, per-labor loop.  A walk state st is                      *)
(* [units, workers, lazy_labors, n, m]: n is needed / remaining, m excess. *)
(***************************************************************************)
Bump(ll, l, w, d) ==
    IF ll[l].skill = "NONE" THEN [w EXCEPT !.unskilled = @ + d]
    ELSE [w EXCEPT !.skilled = @ + d]

\* DeficitWalk with the test of the worker's flag inverted.
RECURSIVE DeficitWalkHolders(_, _, _)
DeficitWalkHolders(l, i, st) ==
    IF i > Len(st.workers) THEN st
    ELSE LET w == st.workers[i] IN
         IF Holds(st.units, w.unit, l)
         THEN LET st1 == [st EXCEPT !.units[w.unit].labors[l] = TRUE,
                                    !.lazy_labors[l].active = @ + 1,
                                    !.workers[i] = Bump(st.lazy_labors, l, w, 1),
                                    !.n = @ - 1]
              IN IF st1.n = 0 THEN st1 ELSE DeficitWalkHolders(l, i + 1, st1)
         ELSE DeficitWalkHolders(l, i + 1, st)

\* DeficitWalk that does not stop when the labor has reached its minimum.
RECURSIVE DeficitWalkAll(_, _, _)
DeficitWalkAll(l, i, st) ==
    IF i > Len(st.workers) THEN st
    ELSE LET w == st.workers[i] IN
         IF ~Holds(st.units, w.unit, l)
         THEN DeficitWalkAll(l, i + 1,
                             [st EXCEPT !.units[w.unit].labors[l] = TRUE,
                                        !.lazy_labors[l].active = @ + 1,
                                        !.workers[i] = Bump(st.lazy_labors, l, w, 1),
                                        !.n = @ - 1])
         ELSE DeficitWalkAll(l, i + 1, st)

\* Add this labor to one or more workers.
RECURSIVE DeficitWalk(_, _, _)
DeficitWalk(l, i, st) ==
    IF i > Len(st.workers) THEN st
    ELSE LET w == st.workers[i] IN
         IF ~Holds(st.units, w.unit, l)
         THEN LET st1 == [st EXCEPT !.units[w.unit].labors[l] = TRUE,
                                    !.lazy_labors[l].active = @ + 1,
                                    !.workers[i] = Bump(st.lazy_labors, l, w, 1),
                                    !.n = @ - 1]
              IN IF st1.n = 0 THEN st1 ELSE DeficitWalk(l, i + 1, st1)
         ELSE DeficitWalk(l, i + 1, st)

\* SurplusWalk that leaves the tallies of the worker it drops as they were.
RECURSIVE SurplusWalkKeepsTally(_, _, _)
SurplusWalkKeepsTally(l, i, st) ==
    IF i > Len(st.workers) THEN st
    ELSE LET w == st.workers[i] IN
         IF Holds(st.units, w.unit, l)
         THEN IF st.n # 0
              THEN SurplusWalkKeepsTally(l, i + 1, [st EXCEPT !.n = @ - 1])
              ELSE LET st1 == [st EXCEPT !.units[w.unit].labors[l] = FALSE,
                                         !.lazy_labors[l].active = @ - 1,
                                         !.m = @ - 1]
                   IN IF st1.m = 0 THEN st1 ELSE SurplusWalkKeepsTally(l, i + 1, st1)
         ELSE SurplusWalkKeepsTally(l, i + 1, st)

\* SurplusWalk where every worker passed by, holder or not, uses up the quota.
RECURSIVE SurplusWalkCountsAll(_, _, _)
SurplusWalkCountsAll(l, i, st) ==
    IF i > Len(st.workers) THEN st
    ELSE LET w == st.workers[i] IN
         IF st.n # 0
         THEN SurplusWalkCountsAll(l, i + 1, [st EXCEPT !.n = @ - 1])
         ELSE IF Holds(st.units, w.unit, l)
         THEN LET st1 == [st EXCEPT !.units[w.unit].labors[l] = FALSE,
                                    !.lazy_labors[l].active = @ - 1,
                                    !.workers[i] = Bump(st.lazy_labors, l, w, -1),
                                    !.m = @ - 1]
              IN IF st1.m = 0 THEN st1 ELSE SurplusWalkCountsAll(l, i + 1, st1)
         ELSE SurplusWalkCountsAll(l, i + 1, st)

\* Remove this labor from one or more workers.
RECURSIVE SurplusWalk(_, _, _)
SurplusWalk(l, i, st) ==
    IF i > Len(st.workers) THEN st
    ELSE LET w == st.workers[i] IN
         IF Holds(st.units, w.unit, l)
         THEN IF st.n # 0
              THEN SurplusWalk(l, i + 1, [st EXCEPT !.n = @ - 1])
              ELSE LET st1 == [st EXCEPT !.units[w.unit].labors[l] = FALSE,
                                         !.lazy_labors[l].active = @ - 1,
                                         !.workers[i] = Bump(st.lazy_labors, l, w, -1),
                                         !.m = @ - 1]
                   IN IF st1.m = 0 THEN st1 ELSE SurplusWalk(l, i + 1, st1)
         ELSE SurplusWalk(l, i + 1, st)

\* The set of outcomes of one iteration of the per-labor loop, each with the
\* sorted vector the walk went through.
CorrectLabor(l, ll, us, ws) ==
    IF ll[l].active < ll[l].minimum
    THEN {[kind |-> "deficit", order |-> sorted,
           st |-> DeficitWalk(l, 1, [units |-> us, workers |-> sorted,
                                     lazy_labors |-> ll,
                                     n |-> ll[l].minimum - ll[l].active, m |-> 0])] :
             sorted \in sortUnitsBySkill(ws, us, ll[l].skill)}
    ELSE IF ll[l].active > ll[l].maximum
    THEN {[kind |-> "surplus", order |-> sorted,
           st |-> SurplusWalk(l, 1, [units |-> us, workers |-> sorted,
                                     lazy_labors |-> ll,
                                     n |-> ll[l].maximum,
                                     m |-> ll[l].active - ll[l].maximum])] :
             sorted \in sortUnitsBySkill(ws, us, ll[l].skill)}
    ELSE {[kind |-> "none", order |-> ws,
           st |-> [units |-> us, workers |-> ws, lazy_labors |-> ll,
                   n |-> 0, m |-> 0]]}

(***************************************************************************)
(* check_dwarves, last loop: the labors picked for a worker that has no    *)
(* skilled, or no unskilled, labor.  draws[l] is the value rand() returns  *)
(* when it is called for labor l.                                          *)
(***************************************************************************)
\* Reservoir where a labor that has reached its maximum is still a candidate.
RECURSIVE ReservoirAtMaximum(_, _, _, _, _)
ReservoirAtMaximum(ll, wantSkilled, draws, l, acc) ==
    IF l > Len(ll) THEN acc
    ELSE IF /\ (ll[l].skill # "NONE") = wantSkilled
            /\ ll[l].active <= ll[l].maximum
         THEN LET found == acc.found + 1 IN
              ReservoirAtMaximum(ll, wantSkilled, draws, l + 1,
                                 [found |-> found,
                                  selected |-> IF draws[l] % found = 0 THEN l
                                               ELSE acc.selected])
         ELSE ReservoirAtMaximum(ll, wantSkilled, draws, l + 1, acc)

\* [found, selected] after the scan of labors l .. last.
RECURSIVE Reservoir(_, _, _, _, _)
Reservoir(ll, wantSkilled, draws, l, acc) ==
    IF l > Len(ll) THEN acc
    ELSE IF /\ (ll[l].skill # "NONE") = wantSkilled
            /\ ll[l].active < ll[l].maximum
         THEN LET found == acc.found + 1 IN
              Reservoir(ll, wantSkilled, draws, l + 1,
                        [found |-> found,
                         selected |-> IF draws[l] % found = 0 THEN l
                                      ELSE acc.selected])
         ELSE Reservoir(ll, wantSkilled, draws, l + 1, acc)

Enable(us, u, pick) ==
    IF pick.found # 0 THEN [us EXCEPT ![u].labors[pick.selected] = TRUE] ELSE us

\* SafetyNet that picks a skilled labor for every worker, whatever it holds.
SafetyNetAnyWorker(ll, us, w, draws) ==
    Enable(us, w.unit, Reservoir(ll, TRUE, draws, 1, [found |-> 0, selected |-> 0]))

\* units after the safety net has looked at worker w.
SafetyNet(ll, us, w, draws) ==
    LET none == [found |-> 0, selected |-> 0] IN
    IF w.skilled = 0
    THEN \* The loop over the unskilled labors that follows when w.unskilled = 0
         \* only assigns the local variable selected: it enables nothing.
         Enable(us, w.unit, Reservoir(ll, TRUE, draws, 1, none))
    ELSE IF w.unskilled = 0
    THEN Enable(us, w.unit, Reservoir(ll, FALSE, draws, 1, none))
    ELSE us

(***************************************************************************)
(* The pass as steps.                                                      *)
(***************************************************************************)
NoWalk == [kind |-> "none", labor |-> 0, order |-> <<>>]

Flags(us) == [u \in DOMAIN us |-> us[u].labors]

\* check_dwarves up to the end of the recount.
check_dwarves ==
    /\ workers' = RecountWorkers(lazy_labors, units, 1)
    /\ lazy_labors' = RecountActive(lazy_labors, units, workers')
    /\ before' = Flags(units)
    /\ counted' = [l \in DOMAIN lazy_labors |-> lazy_labors'[l].active]
    /\ walk' = NoWalk
    /\ pc' = "labors"
    /\ labor' = 1
    /\ UNCHANGED <<units, widx, passes, cmp>>

\* The test of plugin_onupdate without the enabled flag.
DueIgnoringEnabled == fortress /\ frame_counter - last_frame_count >= DELTA_TICKS

\* The test of plugin_onupdate.
Due == enabled /\ fortress /\ frame_counter - last_frame_count >= DELTA_TICKS

plugin_onupdate ==
    /\ pc = "idle"
    /\ IF Due
       THEN /\ last_frame_count' = frame_counter
            /\ check_dwarves
            /\ UNCHANGED <<enabled, fortress, frame_counter>>
       ELSE UNCHANGED vars

\* One iteration of the per-labor loop.
LaborStep ==
    /\ pc = "labors"
    /\ \E out \in CorrectLabor(labor, lazy_labors, units, workers) :
          /\ units' = out.st.units
          /\ workers' = out.st.workers
          /\ lazy_labors' = out.st.lazy_labors
          /\ walk' = [kind |-> out.kind, labor |-> labor, order |-> out.order]
    /\ IF labor < NLabors
       THEN /\ labor' = labor + 1
            /\ UNCHANGED <<pc, widx, passes>>
       ELSE /\ labor' = 1
            /\ widx' = 1
            /\ IF workers' = <<>>
               THEN pc' = "idle" /\ passes' = passes + 1
               ELSE pc' = "net" /\ UNCHANGED passes
    /\ UNCHANGED <<sched, before, counted, cmp>>

\* One iteration of the safety-net loop.
NetStep ==
    /\ pc = "net"
    /\ \E draws \in [DOMAIN lazy_labors -> 0 .. RandTop] :
          units' = SafetyNet(lazy_labors, units, workers[widx], draws)
    /\ IF widx < Len(workers)
       THEN /\ widx' = widx + 1
            /\ UNCHANGED <<pc, passes>>
       ELSE /\ widx' = 1
            /\ pc' = "idle"
            /\ passes' = passes + 1
    /\ UNCHANGED <<sched, lazy_labors, workers, labor, before, counted, walk, cmp>>

plugin_enable(enable) ==
    /\ pc = "idle"
    /\ enabled' = enable
    /\ UNCHANGED <<fortress, frame_counter, last_frame_count, lazy_labors, units,
                   workers, pc, labor, widx, passes, before, counted, walk, cmp>>

plugin_shutdown == plugin_enable(FALSE)

(***************************************************************************)
(* The host between two callbacks.                                         *)
(***************************************************************************)
Tick ==
    /\ pc = "idle"
    /\ \E d \in TickSteps :
          /\ frame_counter + d <= MaxFrame
          /\ frame_counter' = frame_counter + d
    /\ UNCHANGED <<enabled, fortress, last_frame_count, lazy_labors, units,
                   workers, pc, labor, widx, passes, before, counted, walk, cmp>>

\* A day goes by after a pass (the pass specifications).
NextDay ==
    /\ pc = "idle"
    /\ passes < MaxPasses
    /\ ~Due
    /\ frame_counter' = last_frame_count + DELTA_TICKS
    /\ UNCHANGED <<enabled, fortress, last_frame_count, lazy_labors, units,
                   workers, pc, labor, widx, passes, before, counted, walk, cmp>>

SetMode ==
    /\ pc = "idle"
    /\ fortress' = ~fortress
    /\ UNCHANGED <<enabled, frame_counter, last_frame_count, lazy_labors, units,
                   workers, pc, labor, widx, passes, before, counted, walk, cmp>>

(***************************************************************************)
(* Worlds.                                                                 *)
(***************************************************************************)
\* The labors of a world, in the order of df::unit_labor, with the skill
\* that ENUM_ATTR(job_skill, labor, skill) attaches to each.
MINE == [name |-> "MINE", skill |-> "MINING"]
HAUL_STONE == [name |-> "HAUL_STONE", skill |-> "NONE"]
CUTWOOD == [name |-> "CUTWOOD", skill |-> "WOODCUTTING"]

UniformedLabors == {"MINE", "CUTWOOD", "HUNT"}

\* The bounds of the two classes of labor, 20 / 40 and 2 / 7 in the source,
\* are taken from 0 .. MaxBound here.
initialize_skills(table, umin, umax, smin, smax) ==
    [l \in DOMAIN table |->
        [skill |-> table[l].skill,
         uniformed |-> table[l].name \in UniformedLabors,
         minimum |-> IF table[l].skill = "NONE" THEN umin ELSE smin,
         maximum |-> IF table[l].skill = "NONE" THEN umax ELSE smax,
         active |-> 0]]

Registries(table, top) ==
    {initialize_skills(table, umin, umax, smin, smax) :
        umin \in 0 .. top, umax \in 0 .. top, smin \in 0 .. top, smax \in 0 .. top}

Configured(table, top) ==
    {ll \in Registries(table, top) :
        \A l \in DOMAIN ll : ll[l].minimum <= ll[l].maximum}

Dwarf == [soul |-> TRUE, citizen |-> TRUE, adult |-> TRUE, profession |-> "STANDARD"]
Child == [Dwarf EXCEPT !.adult = FALSE]
Visitor == [Dwarf EXCEPT !.citizen = FALSE]
Soulless == [Dwarf EXCEPT !.soul = FALSE]
Drunk == [Dwarf EXCEPT !.profession = "DRUNK"]
Recruit == [Dwarf EXCEPT !.profession = "RECRUIT"]

Population(n, nl, kinds, skillsets) ==
    [1 .. n -> {[soul |-> k.soul, citizen |-> k.citizen, adult |-> k.adult,
                 profession |-> k.profession, labors |-> f, skills |-> sv] :
                   k \in kinds, f \in [1 .. nl -> BOOLEAN], sv \in skillsets}]

InitPassState ==
    /\ last_frame_count = 0
    /\ workers = <<>>
    /\ pc = "idle"
    /\ labor = 1
    /\ widx = 1
    /\ passes = 0
    /\ before = Flags(units)
    /\ counted = [l \in DOMAIN lazy_labors |-> 0]
    /\ walk = NoWalk
    /\ cmp = [of |-> "none"]

(***************************************************************************)
(* SpecPass: passes run one after the other in a fortress of three labors. *)
(***************************************************************************)
NUnits == 2

FortLabors == <<MINE, HAUL_STONE, CUTWOOD>>

InitPass ==
    /\ enabled = TRUE
    /\ fortress = TRUE
    /\ frame_counter = DELTA_TICKS
    /\ lazy_labors \in Configured(FortLabors, MaxBound)
    /\ units \in Population(NUnits, Len(FortLabors), {Dwarf, Child},
                            {<<>>, <<Skill("MINING", 1, 0, 0, 0)>>})
    /\ InitPassState

NextPass == plugin_onupdate \/ LaborStep \/ NetStep \/ NextDay

SpecPass == InitPass /\ [][NextPass]_vars

(***************************************************************************)
(* SpecCamp: one pass in a camp of two labors where one unit may fail any  *)
(* one of the tests of can_work.                                           *)
(***************************************************************************)
NCamp == 2

CampLabors == <<MINE, HAUL_STONE>>

Kinds == {Dwarf, Child, Visitor, Soulless, Drunk, Recruit}

InitCamp ==
    /\ enabled = TRUE
    /\ fortress = TRUE
    /\ frame_counter = DELTA_TICKS
    /\ lazy_labors \in Configured(CampLabors, MaxBound)
    /\ units \in {us \in Population(NCamp, Len(CampLabors), Kinds,
                                     {<<>>, <<Skill("MINING", 1, 0, 0, 0)>>}) :
                     /\ Cardinality({u \in DOMAIN us : ~can_work(us[u])}) <= 1
                     /\ \A u \in DOMAIN us : can_work(us[u]) \/ us[u].skills = <<>>}
    /\ InitPassState

NextCamp == plugin_onupdate \/ LaborStep \/ NetStep

SpecCamp == InitCamp /\ [][NextCamp]_vars

(***************************************************************************)
(* Spec: the plugin under its host.  The host enables and disables the     *)
(* plugin, changes the game mode, advances the frame counter and calls the *)
(* update callback.                                                        *)
(***************************************************************************)
NHost == 1

Init ==
    /\ enabled = FALSE
    /\ fortress \in BOOLEAN
    /\ frame_counter = 0
    /\ lazy_labors \in Configured(CampLabors, MaxBound)
    /\ units \in Population(NHost, Len(CampLabors), {Dwarf}, {<<>>})
    /\ InitPassState

Next ==
    \/ plugin_onupdate
    \/ LaborStep
    \/ NetStep
    \/ \E enable \in BOOLEAN : plugin_enable(enable)
    \/ plugin_shutdown
    \/ Tick
    \/ SetMode

Spec == Init /\ [][Next]_vars

(***************************************************************************)
(* SpecOne: one pass in a world whose only labor is a skilled one.         *)
(***************************************************************************)
NOne == 3
MaxOne == 2         \* largest minimum / maximum of the labor of SpecOne

OneLabor == <<MINE>>

\* The skill vectors of the dwarves of SpecOne: the skill of the labor at
\* three levels, with and without another skill.
OneSkills ==
    {<<>>,
     <<Skill("MINING", 1, 0, 0, 0)>>,
     <<Skill("MINING", 1, 0, 0, 0), Skill("CARPENTRY", 1, 0, 0, 0)>>,
     <<Skill("MINING", 2, 0, 0, 0)>>}

InitOne ==
    /\ enabled = TRUE
    /\ fortress = TRUE
    /\ frame_counter = DELTA_TICKS
    /\ lazy_labors \in Configured(OneLabor, MaxOne)
    /\ units \in Population(NOne, Len(OneLabor), {Dwarf}, OneSkills)
    /\ InitPassState

SpecOne == InitOne /\ [][NextCamp]_vars

(***************************************************************************)
(* SpecConv: a fixed population of dwarves goes through pass after pass.   *)
(* The host calls the update callback on every frame and a pass that has   *)
(* started runs to its end, so no step that is possible waits for ever.    *)
(***************************************************************************)
NConv == 2

InitConv ==
    /\ enabled = TRUE
    /\ fortress = TRUE
    /\ frame_counter = DELTA_TICKS
    /\ lazy_labors \in Configured(FortLabors, MaxBound)
    /\ units \in Population(NConv, Len(FortLabors), {Dwarf}, {<<>>})
    /\ InitPassState

SpecConv == InitConv /\ [][NextPass]_vars /\ WF_vars(NextPass)

(***************************************************************************)
(* SpecTable: one pass over any table of bounds, a minimum above the       *)
(* maximum included.  check_dwarves reads lazy_labors as it finds it.      *)
(***************************************************************************)
NTable == 2

InitTable ==
    /\ enabled = TRUE
    /\ fortress = TRUE
    /\ frame_counter = DELTA_TICKS
    /\ lazy_labors \in Registries(FortLabors, MaxBound)
    /\ units \in Population(NTable, Len(FortLabors), {Dwarf}, {<<>>})
    /\ InitPassState

SpecTable == InitTable /\ [][NextCamp]_vars

(***************************************************************************)
(* SpecCmp: the comparators applied to pairs of skill records and to pairs *)
(* of worker records.                                                      *)
(***************************************************************************)
MaxField == 1       \* rating, experience, rusty, rust_counter are 0 .. MaxField
MaxTally == 1       \* skilled, unskilled, total_skill are 0 .. MaxTally

SkillRecords ==
    {NoSkill} \cup {Skill("MINING", r, e, y, c) :
                      r \in 0 .. MaxField, e \in 0 .. MaxField,
                      y \in 0 .. MaxField, c \in 0 .. MaxField}

ProfileSkills == {NoSkill, Skill("MINING", 1, 0, 0, 0), Skill("MINING", 1, 1, 0, 0)}

Profiles ==
    {[unit |-> 0, skilled |-> s, unskilled |-> u, total_skill |-> t, uniform |-> 0,
      this_skill |-> this, other_skill |-> other] :
        s \in 0 .. MaxTally, u \in 0 .. MaxTally, t \in 0 .. MaxTally,
        this \in ProfileSkills, other \in ProfileSkills}

InitCmp ==
    /\ enabled = FALSE
    /\ fortress = FALSE
    /\ frame_counter = 0
    /\ last_frame_count = 0
    /\ lazy_labors = initialize_skills(OneLabor, 0, 0, 0, 0)
    /\ units = <<>>
    /\ workers = <<>>
    /\ pc = "idle"
    /\ labor = 1
    /\ widx = 1
    /\ passes = 0
    /\ before = <<>>
    /\ counted = <<0>>
    /\ walk = NoWalk
    /\ \/ cmp \in {[of |-> "skills", a |-> a, b |-> b, called |-> {},
                     ab |-> FALSE, ba |-> FALSE] :
                       a \in SkillRecords, b \in SkillRecords}
       \/ cmp \in {[of |-> "workers", a |-> a, b |-> b, called |-> {},
                     ab |-> FALSE, ba |-> FALSE] :
                       a \in Profiles, b \in Profiles}

world == <<enabled, fortress, frame_counter, last_frame_count, lazy_labors, units,
           workers, pc, labor, widx, passes, before, counted, walk>>

CallMoreSkilled ==
    /\ cmp.of = "skills"
    /\ cmp.called = {}
    /\ cmp' = [cmp EXCEPT !.called = {"moreSkilled"},
                          !.ab = moreSkilled(cmp.a, cmp.b),
                          !.ba = moreSkilled(cmp.b, cmp.a)]
    /\ UNCHANGED world

CallSortBySkilledLabor ==
    /\ cmp.of = "workers"
    /\ cmp.called = {}
    /\ cmp' = [cmp EXCEPT !.called = {"sortBySkilledLabor"},
                          !.ab = sortBySkilledLabor(cmp.a, cmp.b),
                          !.ba = sortBySkilledLabor(cmp.b, cmp.a)]
    /\ UNCHANGED world

CallSortByUnskilledLabor ==
    /\ cmp.of = "workers"
    /\ cmp.called = {}
    /\ cmp' = [cmp EXCEPT !.called = {"sortByUnskilledLabor"},
                          !.ab = sortByUnskilledLabor(cmp.a, cmp.b),
                          !.ba = sortByUnskilledLabor(cmp.b, cmp.a)]
    /\ UNCHANGED world

NextCmp == CallMoreSkilled \/ CallSortBySkilledLabor \/ CallSortByUnskilledLabor

SpecCmp == InitCmp /\ [][NextCmp]_vars

(***************************************************************************)
(* What the claims speak of.                                               *)
(***************************************************************************)
Eligible == {u \in DOMAIN units : can_work(units[u])}

\* The eligible workers that hold labor l now / held it when the pass began.
Holders(l) == {u \in Eligible : units[u].labors[l]}
HoldersBefore(l) == {u \in Eligible : before[u][l]}

Labors == DOMAIN lazy_labors
SkilledLabors == {l \in Labors : lazy_labors[l].skill # "NONE"}
UnskilledLabors == {l \in Labors : lazy_labors[l].skill = "NONE"}

PassDone == pc = "idle" /\ passes >= 1

HoldsNothing(u) == \A l \in Labors : ~units[u].labors[l]

\* C1: after a complete pass no labor with minimum <= maximum is held by
\* more eligible workers than its maximum, the picks of the safety net
\* included.
C1_WithinMaximum ==
    PassDone =>
        \A l \in Labors :
            lazy_labors[l].minimum <= lazy_labors[l].maximum =>
                Cardinality(Holders(l)) <= lazy_labors[l].maximum

\* Labor l has had its iteration of the per-labor loop in the running or the
\* last pass.
Corrected(l) == (pc = "labors" /\ labor > l) \/ pc = "net" \/ PassDone

\* C2: once the per-labor loop of a pass has dealt with a labor whose minimum
\* is at most the number of eligible workers, at least minimum eligible
\* workers hold it, through every later step and at the end of the pass.
C2_AtLeastMinimum ==
    \A l \in Labors :
        (Corrected(l) /\ lazy_labors[l].minimum <= Cardinality(Eligible)) =>
            Cardinality(Holders(l)) >= lazy_labors[l].minimum

\* A pass has filled a deficit of one labor and changed a flag of another.
C2_Witness ==
    /\ PassDone
    /\ \E l, k \in Labors :
          /\ l # k
          /\ counted[l] < lazy_labors[l].minimum
          /\ lazy_labors[l].minimum <= Cardinality(Eligible)
          /\ Cardinality(Holders(l)) >= lazy_labors[l].minimum
          /\ \E u \in Eligible : units[u].labors[k] # before[u][k]

\* C3: after a complete pass an eligible worker holds no labor at all only
\* if every labor, skilled and unskilled, is at its maximum.
C3_Coverage ==
    PassDone =>
        \A u \in Eligible :
            HoldsNothing(u) =>
                \A l \in Labors :
                    Cardinality(Holders(l)) >= lazy_labors[l].maximum

\* C4: a second pass right after a complete pass changes no labor of any
\* unit, whatever rand() returns.
C4_Idempotent ==
    (PassDone /\ passes >= 2) => Flags(units) = before

\* What the per-labor loop does for a labor that n workers hold.
KindFor(l, n) ==
    IF n < lazy_labors[l].minimum THEN "deficit"
    ELSE IF n > lazy_labors[l].maximum THEN "surplus"
    ELSE "none"

\* C5: no labor of a unit that fails can_work is changed by a pass, the
\* recount counts the labors of the units that pass can_work only, and
\* whether a labor gets deficit or surplus correction depends on those alone.
C5_IneligibleExcluded ==
    /\ \A u \in DOMAIN units \ Eligible : units[u].labors = before[u]
    /\ (pc # "idle" \/ passes >= 1) =>
          \A l \in Labors : counted[l] = Cardinality(HoldersBefore(l))
    /\ walk.labor # 0 =>
          walk.kind = KindFor(walk.labor, Cardinality(HoldersBefore(walk.labor)))

\* A pass has changed labors of the workers while a unit that cannot work
\* holds a labor that no worker was counted for.
C5_Witness ==
    /\ PassDone
    /\ Flags(units) # before
    /\ \E u \in DOMAIN units \ Eligible : \E l \in Labors :
          units[u].labors[l] /\ counted[l] = 0

\* One step of the safety net on a worker that holds nothing while every
\* labor is below its maximum gives it one skilled labor and all unskilled ones.
C9_Step ==
    (/\ pc = "net"
     /\ workers[widx].skilled = 0
     /\ workers[widx].unskilled = 0
     /\ \A l \in Labors : /\ lazy_labors[l].active < lazy_labors[l].maximum
                           /\ Cardinality(Holders(l)) < lazy_labors[l].maximum)
    => LET u == workers[widx].unit IN
       /\ Cardinality({l \in SkilledLabors : units'[u].labors[l]}) = 1
       /\ \A l \in UnskilledLabors : units'[u].labors[l]

\* C9: a worker that the safety net finds with no skilled and no unskilled
\* labor, while every labor is below its maximum, leaves the safety net with
\* exactly one skilled labor and with every unskilled labor enabled.
C9_ScenarioC == [][C9_Step]_vars

\* What every step of the plugin under its host satisfies.
C6_Step ==
    /\ (pc = "idle" /\ ~(enabled /\ fortress
                          /\ frame_counter - last_frame_count >= DELTA_TICKS))
         => /\ pc' = "idle"
            /\ units' = units
            /\ lazy_labors' = lazy_labors
            /\ last_frame_count' = last_frame_count
    /\ (pc = "idle" /\ pc' # "idle") => last_frame_count' = frame_counter
    /\ last_frame_count' # last_frame_count
         => last_frame_count' - last_frame_count >= DELTA_TICKS
    /\ (pc = "idle" /\ ~enabled) => pc' = "idle"

\* C6: the update callback starts a pass only when the plugin is enabled, the
\* game is in fortress mode and DELTA_TICKS ticks have gone by since the tick
\* recorded at the last pass; otherwise no labor of a unit, no counter and not
\* the recorded tick changes.  The recorded ticks of two passes are at least
\* DELTA_TICKS apart, and no pass starts while the plugin is disabled.
C6_UpdateGuard == [][C6_Step]_vars

\* Two passes have run, the plugin has been disabled since, and a pass would
\* be due again.
C6_Witness ==
    /\ pc = "idle"
    /\ passes >= 2
    /\ ~enabled
    /\ fortress
    /\ frame_counter - last_frame_count >= DELTA_TICKS

(***************************************************************************)
(* Scenarios A and B in the world of one skilled labor.                    *)
(***************************************************************************)
\* The worker record sortUnitsBySkill gives unit u when the first labor is
\* sorted for: the tallies are those of the labors held when the pass began.
RankRecord(u) ==
    ScanSkills(units[u].skills, 1,
               TallyLabors(lazy_labors, before[u], 1, NewWorker(u)),
               lazy_labors[1].skill)

\* No worker outside H comes before a worker of H in the order of labor 1.
RankedFirst(H, among) ==
    \A h \in H : \A o \in among \ H :
        ~Precedes(RankRecord(o), RankRecord(h), lazy_labors[1].skill)

ScenarioA ==
    /\ NLabors = 1
    /\ lazy_labors[1].skill # "NONE"
    /\ lazy_labors[1].minimum < lazy_labors[1].maximum
    /\ HoldersBefore(1) = {}
    /\ Cardinality(Eligible) >= lazy_labors[1].minimum

ScenarioB ==
    /\ NLabors = 1
    /\ Cardinality(HoldersBefore(1)) > lazy_labors[1].maximum

StrictWeakAt(Less(_, _), S, a, b, ab, ba) ==
    /\ a = b => ~ab
    /\ ~(ab /\ ba)
    /\ \A c \in S :
          /\ (ab /\ Less(b, c)) => Less(a, c)
          /\ (~ab /\ ~ba /\ ~Less(b, c) /\ ~Less(c, b))
               => (~Less(a, c) /\ ~Less(c, a))

\* C10: moreSkilled, sortBySkilledLabor and sortByUnskilledLabor are strict
\* weak orderings: irreflexive (also on a missing record), asymmetric,
\* transitive, and with transitive incomparability.
C10_StrictWeakOrders ==
    /\ "moreSkilled" \in cmp.called =>
          StrictWeakAt(moreSkilled, SkillRecords, cmp.a, cmp.b, cmp.ab, cmp.ba)
    /\ "sortBySkilledLabor" \in cmp.called =>
          StrictWeakAt(sortBySkilledLabor, Profiles, cmp.a, cmp.b, cmp.ab, cmp.ba)
    /\ "sortByUnskilledLabor" \in cmp.called =>
          StrictWeakAt(sortByUnskilledLabor, Profiles, cmp.a, cmp.b, cmp.ab, cmp.ba)

\* A worker record has been compared with itself, both skills missing.
C10_Witness ==
    /\ cmp.called = {"sortBySkilledLabor"}
    /\ cmp.a = cmp.b
    /\ ~cmp.a.this_skill.present
    /\ ~cmp.ab

(***************************************************************************)
(* Convergence.                                                            *)
(***************************************************************************)
\* C11: with the population, the skills and the bounds fixed, every run of
\* passes, whatever the random picks, comes to a point from which no pass
\* changes a labor flag any more: from that point on the flags are those the
\* running pass started with.
C11_Converges == <>[](Flags(units) = before)

\* The last pass changed nothing although a worker that lost its skilled
\* labor stays without one next to a labor that is full.
C11_Witness ==
    /\ PassDone
    /\ passes = MaxPasses
    /\ Flags(units) = before
    /\ \E l \in SkilledLabors :
          /\ lazy_labors[l].maximum >= 1
          /\ Cardinality(Holders(l)) = lazy_labors[l].maximum
    /\ \E u \in Eligible : \A l \in SkilledLabors : ~Holds(units, u, l)

(***************************************************************************)
(* The skilled pick of the safety net.                                     *)
(***************************************************************************)
HoldsSkilled(u) == \E l \in SkilledLabors : Holds(units, u, l)

\* The safety net leaves lazy_labors alone: the counters at the end of the
\* pass are those it tested for every worker.
NoSkilledCandidate == \A l \in SkilledLabors : lazy_labors[l].active >= lazy_labors[l].maximum

\* C12: after a complete pass every eligible worker holds a skilled labor,
\* unless no skilled labor had its active count below its maximum when the
\* safety net looked at the worker; a worker whose only skilled labor was
\* removed by the surplus correction of the same pass is no exception.
C12_SkilledForAll ==
    PassDone => \A u \in Eligible : HoldsSkilled(u) \/ NoSkilledCandidate

\* A worker lost its only skilled labor to the surplus correction and came
\* out of the same pass with another one.
C12_Witness ==
    /\ PassDone
    /\ \E u \in Eligible : \E l, k \in SkilledLabors :
          /\ before[u][l] /\ ~Holds(units, u, l)
          /\ \A j \in SkilledLabors : before[u][j] => j = l
          /\ ~before[u][k] /\ Holds(units, u, k)

(***************************************************************************)
(* The uniformed labors.                                                   *)
(***************************************************************************)
Uniformed == {l \in Labors : lazy_labors[l].uniformed}

AtMostOneUniform(flags) ==
    \A u \in Eligible : Cardinality({l \in Uniformed : flags[u][l]}) <= 1

\* C13: if every eligible worker holds at most one of the uniformed labors
\* when a pass starts, every eligible worker holds at most one of them when the
\* pass ends.
C13_MutualExclusion ==
    (PassDone /\ AtMostOneUniform(before)) => AtMostOneUniform(Flags(units))

(***************************************************************************)
(* The order of two skill records.                                         *)
(***************************************************************************)
\* The record that wins by the chain rating, experience, rustiness, rust
\* counter, where the less rusty record wins the third comparison.
Outranks(a, b) ==
    IF ~a.present THEN FALSE
    ELSE IF ~b.present THEN TRUE
    ELSE IF a.rating # b.rating THEN a.rating > b.rating
    ELSE IF a.experience # b.experience THEN a.experience > b.experience
    ELSE IF a.rusty # b.rusty THEN a.rusty < b.rusty
    ELSE IF a.rust_counter # b.rust_counter THEN a.rust_counter > b.rust_counter
    ELSE FALSE

\* C14: moreSkilled(a, b) is false when a is missing, true when a is present
\* and b is missing, and for two present records decides on the first unequal
\* field of rating (higher wins), experience (higher wins), rustiness (less
\* rusty wins), rust counter (higher wins); false when all four are equal.
C14_FieldChain ==
    (cmp.of = "skills" /\ cmp.called = {"moreSkilled"}) =>
        /\ cmp.ab = Outranks(cmp.a, cmp.b)
        /\ cmp.ba = Outranks(cmp.b, cmp.a)

(***************************************************************************)
(* The order of two workers.                                               *)
(***************************************************************************)
\* The chain of keys of the skilled-labor order, the worker with the lower
\* best other skill first.
SkilledChain(w1, w2) ==
    IF moreSkilled(w1.this_skill, w2.this_skill) THEN TRUE
    ELSE IF moreSkilled(w2.this_skill, w1.this_skill) THEN FALSE
    ELSE IF w1.skilled # w2.skilled THEN w1.skilled < w2.skilled
    ELSE IF moreSkilled(w2.other_skill, w1.other_skill) THEN TRUE
    ELSE IF moreSkilled(w1.other_skill, w2.other_skill) THEN FALSE
    ELSE IF w1.unskilled # w2.unskilled THEN w1.unskilled < w2.unskilled
    ELSE IF w1.total_skill # w2.total_skill THEN w1.total_skill < w2.total_skill
    ELSE FALSE

\* C15: the skilled-labor order puts w1 before w2 exactly when the first key
\* that differs says so: w1's skill in the labor outranks w2's; w1 has fewer
\* skilled labors; w2's best other skill outranks w1's; w1 has fewer unskilled
\* labors; w1 has the lower total skill.  Otherwise neither is before the other.
C15_SkilledOrder ==
    (cmp.of = "workers" /\ cmp.called = {"sortBySkilledLabor"}) =>
        /\ cmp.ab = SkilledChain(cmp.a, cmp.b)
        /\ cmp.ba = SkilledChain(cmp.b, cmp.a)

\* The chain of keys of the unskilled-labor order.
UnskilledChain(w1, w2) ==
    IF w1.unskilled # w2.unskilled THEN w1.unskilled < w2.unskilled
    ELSE IF moreSkilled(w2.other_skill, w1.other_skill) THEN TRUE
    ELSE IF moreSkilled(w1.other_skill, w2.other_skill) THEN FALSE
    ELSE IF w1.skilled # w2.skilled THEN w1.skilled < w2.skilled
    ELSE IF w1.total_skill # w2.total_skill THEN w1.total_skill < w2.total_skill
    ELSE FALSE

\* C16: the unskilled-labor order puts w1 before w2 exactly when the first key
\* that differs says so: w1 has fewer unskilled labors; w2's best other skill
\* outranks w1's; w1 has fewer skilled labors; w1 has the lower total skill.
\* Otherwise neither is before the other.
C16_UnskilledOrder ==
    (cmp.of = "workers" /\ cmp.called = {"sortByUnskilledLabor"}) =>
        /\ cmp.ab = UnskilledChain(cmp.a, cmp.b)
        /\ cmp.ba = UnskilledChain(cmp.b, cmp.a)

(***************************************************************************)
(* The counters.                                                           *)
(***************************************************************************)
\* C17: from the end of the recount to the end of the pass, after every
\* enable and disable of deficit correction, surplus correction and the safety
\* net, the active counter of every labor is the number of eligible workers
\* that have the labor enabled.
C17_CounterInvariant ==
    (pc \in {"labors", "net"} \/ PassDone) =>
        \A l \in Labors : lazy_labors[l].active = Cardinality(Holders(l))

(***************************************************************************)
(* Writes to the uniformed labors.                                         *)
(***************************************************************************)
C18_ReadOnlyStep ==
    \A u \in DOMAIN units : \A l \in Uniformed :
        units'[u].labors[l] = units[u].labors[l]

\* C18: no step of a pass, be it of deficit correction, of surplus correction
\* or of the safety net, sets or clears the flag of a uniformed labor.
C18_ReadOnly == [][C18_ReadOnlyStep]_vars

C18_WriteStep ==
    \A u \in DOMAIN units : \A l \in Uniformed :
        units'[u].labors[l] # units[u].labors[l] =>
            \/ /\ pc = "labors"
               /\ l = labor
               /\ units'[u].labors[l] <=> lazy_labors[l].active < lazy_labors[l].minimum
            \/ /\ pc = "net"
               /\ units'[u].labors[l]
               /\ u = workers[widx].unit
               /\ \A k \in SkilledLabors : ~units[u].labors[k]

\* C18 as the code has it: the flag of a uniformed labor is written like that
\* of any skilled labor.  The per-labor loop sets it when the labor is below
\* its minimum and clears it when the labor is above its maximum; the safety
\* net sets it only on the worker it is looking at, and only when that worker
\* has no skilled labor, hence no uniformed labor, enabled.
C18_UniformedWrites == [][C18_WriteStep]_vars

\* The safety net has given a uniformed labor to a worker that held no skilled
\* labor when the pass started.
C18_Witness ==
    /\ PassDone
    /\ \E u \in Eligible : \E l \in Uniformed :
          /\ \A k \in SkilledLabors : ~before[u][k]
          /\ Holds(units, u, l)
          /\ counted[l] >= lazy_labors[l].minimum

(***************************************************************************)
(* A labor with maximum zero.                                              *)
(***************************************************************************)
Gains(u, l) == units'[u].labors[l] /\ ~units[u].labors[l]

C19_ZeroMaximumStep ==
    \A l \in Labors : lazy_labors[l].maximum = 0 =>
        \A u \in DOMAIN units : ~Gains(u, l)

\* C19: whatever its minimum and whatever the flags at the start, no step of
\* deficit correction or of the safety net sets the flag of a labor whose
\* maximum is zero on a worker that did not hold it.
C19_ZeroMaximum == [][C19_ZeroMaximumStep]_vars

(***************************************************************************)
(* Minimal change in the per-labor loop.                                   *)
(***************************************************************************)
Loses(u, l) == ~units'[u].labors[l] /\ units[u].labors[l]

Gainers(l) == {u \in DOMAIN units : Gains(u, l)}

Losers(l) == {u \in DOMAIN units : Loses(u, l)}

C20_Step ==
    pc = "labors" =>
        LET active == counted[labor]
            minimum == lazy_labors[labor].minimum
            maximum == lazy_labors[labor].maximum
        IN /\ \A l \in Labors \ {labor} : Gainers(l) = {} /\ Losers(l) = {}
           /\ (minimum <= active /\ active <= maximum) =>
                  Gainers(labor) = {} /\ Losers(labor) = {}
           /\ active < minimum =>
                  /\ Losers(labor) = {}
                  /\ Cardinality(Gainers(labor)) <= minimum - active
           /\ active > maximum =>
                  /\ Gainers(labor) = {}
                  /\ Cardinality(Losers(labor)) <= active - maximum

====
